---- MODULE Spec2Model ----
(***************************************************************************)
(* Model of app/main.py: the registration intake handler, the two lookup   *)
(* proxies, the admin session gate and the review handlers, over a SQLite  *)
(* table with a UNIQUE email column.                                       *)
(*                                                                         *)
(* Text is a sequence of one-character strings, so that strip(), lower()   *)
(* and replace() are computed and not assumed.  A JSON value is a record   *)
(* with a tag t.  Each worker handles one request at a time: the handler   *)
(* body, the statement execution, the commit and the app-context teardown  *)
(* are separate steps, so requests of different workers interleave at the  *)
(* points where the code touches the store.                                *)
(***************************************************************************)
EXTENDS Integers, Sequences, FiniteSets, TLC

VARIABLES
    rows,       \* committed rows of table registrations, in rowid order
    seq,        \* AUTOINCREMENT counter: the largest id ever committed
    writeLock,  \* the worker whose connection holds SQLite's write lock
    pending,    \* per worker: the statement executed but not yet committed
    now,        \* CURRENT_TIMESTAMP / datetime.now(), in seconds
    session,    \* session.get("admin") of the browser session
    lastAuth,   \* history: the most recent login or logout action
    lastSwitch, \* history: the most recent correct-password login or logout
    pc,         \* per worker: position within the request
    req,        \* per worker: the request being handled
    args,       \* per worker: the statement the handler is about to execute
    resp,       \* per worker: the response of the request
    db,         \* per worker: "db" in g (an open connection)
    connects,   \* per worker: sqlite3.connect calls made by the request
    outbound    \* per worker: requests.get calls made by the request

vars == <<rows, seq, writeLock, pending, now, session, lastAuth, lastSwitch,
          pc, req, args, resp, db, connects, outbound>>

\* ------------------------------------------------------------------------
\* Bounds of the model
\* ------------------------------------------------------------------------
MaxClock == 1
MaxDefects == 2
MaxDigits == 15

Workers == {"w1", "w2"}
NoWorker == "none"

\* ------------------------------------------------------------------------
\* Text
\* ------------------------------------------------------------------------
SetMin(S) == CHOOSE x \in S : \A y \in S : x <= y
SetMax(S) == CHOOSE x \in S : \A y \in S : x >= y

\* str.strip(): leading and trailing whitespace removed, inner kept
Strip(s) ==
    LET keep == {i \in 1..Len(s) : s[i] # " "}
    IN  IF keep = {} THEN <<>> ELSE SubSeq(s, SetMin(keep), SetMax(keep))

LowerChar(c) ==
    IF c = "A" THEN "a" ELSE IF c = "B" THEN "b" ELSE c

\* str.lower()
Lower(s) == [i \in 1..Len(s) |-> LowerChar(s[i])]

\* str.replace(ch, "") for a one-character ch
Replace(s, ch) == SelectSeq(s, LAMBDA c : c # ch)

DigitChars == {"0", "1", "2", "3", "4", "5", "6", "7", "8", "9"}

\* str.isdigit(): false for the empty string
IsDigit(s) == Len(s) > 0 /\ \A i \in 1..Len(s) : s[i] \in DigitChars

RECURSIVE Join(_, _)
Join(items, sep) ==
    IF Len(items) = 0 THEN <<>>
    ELSE IF Len(items) = 1 THEN items[1]
    ELSE items[1] \o sep \o Join(Tail(items), sep)

\* json.dumps of a list of strings
JsonDumps(l) ==
    <<"[">> \o Join([i \in 1..Len(l) |-> <<"\"">> \o l[i] \o <<"\"">>], <<",", " ">>)
            \o <<"]">>

\* ------------------------------------------------------------------------
\* JSON values and payloads
\* ------------------------------------------------------------------------
Missing == [t |-> "missing"]
NullV == [t |-> "null"]
NumV == [t |-> "num"]
TrueV == [t |-> "true"]
ObjV == [t |-> "obj"]
StrV(s) == [t |-> "str", s |-> s]
ListV(l) == [t |-> "list", l |-> l]

Required == <<"nome", "email", "telefone", "cnpj">>
Fields == {"nome", "email", "telefone", "cnpj", "razao_social",
           "empresas_brinde", "termos_aceitos", "status"}

\* dict.get(key, default)
Get(data, key, default) ==
    IF data.f[key].t = "missing" THEN default ELSE data.f[key]

\* truth value of request.get_json()'s result
DataTruthy(data) ==
    CASE data.t = "null" -> FALSE
      [] data.t = "array" -> data.n > 0
      [] data.t = "object" -> \E k \in Fields : data.f[k].t # "missing"

\* truth value of data.get("termos_aceitos")
Truthy(v) ==
    CASE v.t \in {"missing", "null"} -> FALSE
      [] v.t = "str" -> Len(v.s) > 0
      [] v.t = "list" -> Len(v.l) > 0
      [] OTHER -> TRUE

AllMissing == [k \in Fields |-> Missing]

\* request.get_json() returning None, a JSON array of n items, or a JSON object
NullData == [t |-> "null", n |-> 0, f |-> AllMissing]
ArrayData(n) == [t |-> "array", n |-> n, f |-> AllMissing]
ObjectData(f) == [t |-> "object", n |-> 0, f |-> f]

\* ------------------------------------------------------------------------
\* Responses
\* ------------------------------------------------------------------------
NoBody == <<>>
Reply(code, kind, msg, body) ==
    [code |-> code, kind |-> kind, msg |-> msg, body |-> body]

NoResp == Reply(0, "none", <<>>, NoBody)
JsonError(code, msg) == Reply(code, "json", msg, NoBody)
Redirect(target) == Reply(302, "redirect", <<target>>, NoBody)
\* an exception no handler catches: Flask answers 500
Uncaught(exc) == Reply(500, "exception", <<exc>>, NoBody)

\* ------------------------------------------------------------------------
\* Store
\* ------------------------------------------------------------------------
NoStmt == [k |-> "none"]
NoReq == [op |-> "none"]

Columns == <<"id", "nome", "email", "telefone", "cnpj", "razao_social",
             "empresas_brinde", "termos_aceitos", "status", "created_at", "notes">>

StatusValues == {"pendente", "aprovado", "rejeitado"}

\* values sqlite3 can bind to a "?" placeholder
Bindable(v) == v.t \in {"null", "num", "true", "str"}

\* the UNIQUE constraint on column email
EmailTaken(table, email) == \E i \in 1..Len(table) : table[i].email = email

\* INSERT: the columns the statement names, the others from their DEFAULT
NewRow(id, a, ts) ==
    [id |-> id, nome |-> a.nome, email |-> a.email, telefone |-> a.telefone,
     cnpj |-> a.cnpj, razao_social |-> a.razao_social,
     empresas_brinde |-> a.empresas_brinde, termos_aceitos |-> a.termos_aceitos,
     status |-> "pendente", created_at |-> ts, notes |-> NullV]

\* an UPDATE of status without its WHERE clause
SetStatusAll(table, id, value) ==
    [i \in 1..Len(table) |-> [table[i] EXCEPT !.status = value]]

\* UPDATE registrations SET status = ? WHERE id = ?
SetStatus(table, id, value) ==
    [i \in 1..Len(table) |->
        IF table[i].id = id THEN [table[i] EXCEPT !.status = value] ELSE table[i]]

\* UPDATE registrations SET notes = ? WHERE id = ?
SetNotes(table, id, value) ==
    [i \in 1..Len(table) |->
        IF table[i].id = id THEN [table[i] EXCEPT !.notes = value] ELSE table[i]]

\* ORDER BY created_at DESC: rows of equal created_at stay in scan (rowid) order
RECURSIVE InsertDesc(_, _)
InsertDesc(sorted, r) ==
    IF Len(sorted) = 0 THEN <<r>>
    ELSE IF Head(sorted).created_at >= r.created_at
         THEN <<Head(sorted)>> \o InsertDesc(Tail(sorted), r)
         ELSE <<r>> \o sorted

RECURSIVE OrderByCreatedAtDesc(_)
OrderByCreatedAtDesc(table) ==
    IF Len(table) = 0 THEN <<>>
    ELSE InsertDesc(OrderByCreatedAtDesc(SubSeq(table, 1, Len(table) - 1)),
                    table[Len(table)])

\* ------------------------------------------------------------------------
\* create_registration
\* ------------------------------------------------------------------------
\* the loop over the required fields: "ok", the first blank field, or the
\* AttributeError of .strip() on a value that is no string
RECURSIVE CheckRequired(_, _)
CheckRequired(data, i) ==
    IF i > Len(Required) THEN [r |-> "ok"]
    ELSE LET v == Get(data, Required[i], StrV(<<>>))
         IN  IF v.t # "str" THEN [r |-> "raise"]
             ELSE IF Strip(v.s) = <<>> THEN [r |-> "blank", field |-> Required[i]]
             ELSE CheckRequired(data, i + 1)

\* the email stored as typed, only trimmed
NormalizeEmailNoLower(s) == Strip(s)

NormalizeEmail(s) == Lower(Strip(s))

Empresas(data) ==
    LET e == Get(data, "empresas_brinde", ListV(<<>>))
    IN  IF e.t = "list" THEN StrV(JsonDumps(e.l)) ELSE e

\* the optional text columns, data.get(k, "").strip(); razao_social stands for
\* the thirteen columns the handler treats alike
OptionalOk(data) == Get(data, "razao_social", StrV(<<>>)).t = "str"

InsertArgs(data) ==
    [k |-> "insert",
     nome |-> Strip(data.f["nome"].s),
     email |-> NormalizeEmail(data.f["email"].s),
     telefone |-> Strip(data.f["telefone"].s),
     cnpj |-> Strip(data.f["cnpj"].s),
     razao_social |-> Strip(Get(data, "razao_social", StrV(<<>>)).s),
     empresas_brinde |-> Empresas(data),
     termos_aceitos |-> IF Truthy(Get(data, "termos_aceitos", NullV)) THEN 1 ELSE 0]

\* the handler up to db.execute: what it answers, or the statement it goes on with
IntakeOutcome(data) ==
    IF ~DataTruthy(data)
    THEN [next |-> "teardown", opens |-> FALSE, stmt |-> NoStmt,
          resp |-> JsonError(400, <<"Dados inválidos">>)]
    ELSE IF data.t # "object"
    THEN [next |-> "teardown", opens |-> FALSE, stmt |-> NoStmt,
          resp |-> Uncaught("AttributeError")]
    ELSE LET c == CheckRequired(data, 1)
         IN  CASE c.r = "raise" ->
                    [next |-> "teardown", opens |-> FALSE, stmt |-> NoStmt,
                     resp |-> Uncaught("AttributeError")]
               [] c.r = "blank" ->
                    [next |-> "teardown", opens |-> FALSE, stmt |-> NoStmt,
                     resp |-> JsonError(400, <<"Campo obrigatório: ", c.field>>)]
               [] c.r = "ok" /\ ~OptionalOk(data) ->
                    [next |-> "teardown", opens |-> TRUE, stmt |-> NoStmt,
                     resp |-> Uncaught("AttributeError")]
               [] OTHER ->
                    [next |-> "execute", opens |-> TRUE, stmt |-> InsertArgs(data),
                     resp |-> NoResp]

\* ------------------------------------------------------------------------
\* Connection scope: get_db and the teardown_appcontext hook close_db
\* ------------------------------------------------------------------------
\* get_db: connects only when "db" is not in g; the number of connects so far
GetDb(isOpen, n) == IF isOpen THEN n ELSE n + 1

\* a teardown that pops "db" and forgets to close it
CloseDbLeak(isOpen) == isOpen

\* close_db: pops "db" from g and closes it; whether a connection stays open
CloseDb(isOpen) == FALSE

\* ------------------------------------------------------------------------
\* Admin gate
\* ------------------------------------------------------------------------
ADMIN_PASSWORD == "changeme"

\* request.form.get(name) of a field the form does not carry
Absent == "None"

\* a login that only asks for some password
PasswordOkNonEmpty(password) == password # ""

\* admin_login_post: password == ADMIN_PASSWORD
PasswordOk(password) == password = ADMIN_PASSWORD

\* a decorator that calls the handler without looking at the session
AdminRequiredOpen(admin) == TRUE

\* admin_required: the wrapped handler runs only when session.get("admin")
AdminRequired(admin) == admin

\* a handler that only asks for the form field to be present
StatusOkAny(new_status) == new_status # Absent

\* update_status: new_status in ("pendente", "aprovado", "rejeitado")
StatusOk(new_status) == new_status \in StatusValues

\* ------------------------------------------------------------------------
\* Review handlers
\* ------------------------------------------------------------------------
RowValues(r) == [i \in 1..Len(Columns) |-> r[Columns[i]]]

\* an export whose query has no ORDER BY
CsvRowsUnsorted(table) ==
    <<IF Len(table) > 0 THEN Columns ELSE <<>>>>
    \o [i \in 1..Len(table) |-> RowValues(table[i])]

\* export_csv: the rows csv.writer is given, header first
CsvRows(table) ==
    LET sorted == OrderByCreatedAtDesc(table)
    IN  <<IF Len(sorted) > 0 THEN Columns ELSE <<>>>>
        \o [i \in 1..Len(sorted) |-> RowValues(sorted[i])]

Handled(resp0) == [next |-> "teardown", opens |-> FALSE, stmt |-> NoStmt, resp |-> resp0]
Queried(resp0) == [next |-> "teardown", opens |-> TRUE, stmt |-> NoStmt, resp |-> resp0]
Writing(stmt) == [next |-> "execute", opens |-> TRUE, stmt |-> stmt, resp |-> NoResp]

DashboardOutcome(admin, table) ==
    IF ~AdminRequired(admin) THEN Handled(Redirect("admin_login"))
    ELSE Queried(Reply(200, "html", <<"admin_dashboard.html">>,
                       OrderByCreatedAtDesc(table)))

StatusOutcome(admin, reg_id, new_status) ==
    IF ~AdminRequired(admin) THEN Handled(Redirect("admin_login"))
    ELSE IF ~StatusOk(new_status) THEN Handled(JsonError(400, <<"Status inválido">>))
    ELSE Writing([k |-> "status", id |-> reg_id, value |-> new_status])

NotesOutcome(admin, reg_id, notes) ==
    IF ~AdminRequired(admin) THEN Handled(Redirect("admin_login"))
    ELSE Writing([k |-> "notes", id |-> reg_id,
                  value |-> IF notes.t = "missing" THEN StrV(<<>>) ELSE notes])

ExportOutcome(admin, table, ts) ==
    IF ~AdminRequired(admin) THEN Handled(Redirect("admin_login"))
    ELSE Queried(Reply(200, "csv", <<"cadastros_", ToString(ts), ".csv">>, CsvRows(table)))

\* ------------------------------------------------------------------------
\* Lookup proxies
\* ------------------------------------------------------------------------
CNPJ_LEN == 14
CEP_LEN == 8

\* a cleaning that leaves the slash in
CleanCnpjNoSlash(cnpj) == Replace(Replace(cnpj, "."), "-")

CleanCnpj(cnpj) == Replace(Replace(Replace(cnpj, "."), "/"), "-")
CleanCep(cep) == Replace(Replace(cep, "-"), ".")

\* what the single requests.get attempt leads to
Relay(up, notFound, failed) ==
    IF up.kind = "failed" THEN JsonError(502, <<failed>>)
    ELSE IF up.status = 200 THEN Reply(200, "json", <<>>, <<up.body>>)
    ELSE JsonError(up.status, <<notFound>>)

CnpjOutcome(cnpj, up) ==
    LET c == CleanCnpj(cnpj)
    IN  IF Len(c) # CNPJ_LEN \/ ~IsDigit(c)
        THEN [calls |-> <<>>, resp |-> JsonError(400, <<"CNPJ inválido">>)]
        ELSE [calls |-> <<<<"publica.cnpj.ws/cnpj/">> \o c>>,
              resp |-> Relay(up, "CNPJ não encontrado", "Erro ao consultar CNPJ")]

CepOutcome(cep, up) ==
    LET c == CleanCep(cep)
    IN  IF Len(c) # CEP_LEN \/ ~IsDigit(c)
        THEN [calls |-> <<>>, resp |-> JsonError(400, <<"CEP inválido">>)]
        ELSE [calls |-> <<<<"viacep.com.br/ws/">> \o c \o <<"/json/">>>>,
              resp |-> Relay(up, "CEP não encontrado", "Erro ao consultar CEP")]

\* ------------------------------------------------------------------------
\* Initial state: the module has run init_db inside its own app context, so
\* the table exists and the connection of that context is closed again
\* ------------------------------------------------------------------------
Init ==
    /\ rows = <<>>
    /\ seq = 0
    /\ writeLock = NoWorker
    /\ pending = [w \in Workers |-> NoStmt]
    /\ now = 0
    /\ session = FALSE
    /\ lastAuth = "none"
    /\ lastSwitch = "none"
    /\ pc = [w \in Workers |-> "idle"]
    /\ req = [w \in Workers |-> NoReq]
    /\ args = [w \in Workers |-> NoStmt]
    /\ resp = [w \in Workers |-> NoResp]
    /\ db = [w \in Workers |-> FALSE]
    /\ connects = [w \in Workers |-> 0]
    /\ outbound = [w \in Workers |-> <<>>]

\* ------------------------------------------------------------------------
\* Steps of a request
\* ------------------------------------------------------------------------
\* the handler body of request r runs on worker w up to its first statement
Handle(w, r, out) ==
    /\ pc[w] = "idle"
    /\ pc' = [pc EXCEPT ![w] = out.next]
    /\ req' = [req EXCEPT ![w] = r]
    /\ args' = [args EXCEPT ![w] = out.stmt]
    /\ resp' = [resp EXCEPT ![w] = out.resp]
    /\ db' = [db EXCEPT ![w] = @ \/ out.opens]
    /\ connects' = [connects EXCEPT ![w] = IF out.opens THEN GetDb(db[w], 0) ELSE 0]

CreateRegistration(w, data) ==
    /\ Handle(w, [op |-> "create_registration", data |-> data], IntakeOutcome(data))
    /\ UNCHANGED <<rows, seq, writeLock, pending, now, session, lastAuth, lastSwitch, outbound>>

\* db.execute: sqlite3 binds the parameters, then the statement takes the
\* write lock (waiting while another connection holds it) and runs
Execute(w) ==
    /\ pc[w] = "execute"
    /\ LET stmt == args[w]
       IN  IF stmt.k = "insert" /\ ~Bindable(stmt.empresas_brinde)
           THEN /\ resp' = [resp EXCEPT ![w] = Uncaught("InterfaceError")]
                /\ pc' = [pc EXCEPT ![w] = "teardown"]
                /\ UNCHANGED <<writeLock, pending>>
           ELSE /\ writeLock = NoWorker
                /\ writeLock' = w
                /\ IF stmt.k = "insert" /\ EmailTaken(rows, stmt.email)
                   THEN \* sqlite3.IntegrityError; the transaction stays open
                        /\ resp' = [resp EXCEPT ![w] =
                               JsonError(409, <<"Este e-mail já está cadastrado.">>)]
                        /\ pc' = [pc EXCEPT ![w] = "teardown"]
                        /\ UNCHANGED pending
                   ELSE /\ pending' = [pending EXCEPT ![w] =
                               IF stmt.k = "insert"
                               THEN [k |-> "insert", row |-> NewRow(seq + 1, stmt, now)]
                               ELSE stmt]
                        /\ pc' = [pc EXCEPT ![w] = "commit"]
                        /\ UNCHANGED resp
    /\ UNCHANGED <<rows, seq, now, session, lastAuth, lastSwitch, req, args, db,
                   connects, outbound>>

\* the table after the pending statement of a connection is committed
Apply(table, stmt) ==
    CASE stmt.k = "insert" -> Append(table, stmt.row)
      [] stmt.k = "status" -> SetStatus(table, stmt.id, stmt.value)
      [] stmt.k = "notes" -> SetNotes(table, stmt.id, stmt.value)

\* db.commit and the handler's return
Commit(w) ==
    /\ pc[w] = "commit"
    /\ rows' = Apply(rows, pending[w])
    /\ seq' = IF pending[w].k = "insert" THEN pending[w].row.id ELSE seq
    /\ writeLock' = NoWorker
    /\ pending' = [pending EXCEPT ![w] = NoStmt]
    /\ resp' = [resp EXCEPT ![w] =
           IF pending[w].k = "insert" THEN Reply(201, "json", <<"ok">>, NoBody)
           ELSE Redirect("admin_dashboard")]
    /\ pc' = [pc EXCEPT ![w] = "teardown"]
    /\ UNCHANGED <<now, session, lastAuth, lastSwitch, req, args, db, connects,
                   outbound>>

\* the response is sent and the app context torn down: close_db runs, and
\* closing the connection rolls back a transaction left open
Teardown(w) ==
    /\ pc[w] = "teardown"
    /\ db' = [db EXCEPT ![w] = CloseDb(@)]
    /\ writeLock' = IF writeLock = w THEN NoWorker ELSE writeLock
    /\ pending' = [pending EXCEPT ![w] = NoStmt]
    /\ pc' = [pc EXCEPT ![w] = "idle"]
    /\ req' = [req EXCEPT ![w] = NoReq]
    /\ args' = [args EXCEPT ![w] = NoStmt]
    /\ resp' = [resp EXCEPT ![w] = NoResp]
    /\ connects' = [connects EXCEPT ![w] = 0]
    /\ outbound' = [outbound EXCEPT ![w] = <<>>]
    /\ UNCHANGED <<rows, seq, now, session, lastAuth, lastSwitch>>

AdminLogin(w) ==
    /\ Handle(w, [op |-> "admin_login"],
              Handled(IF session THEN Redirect("admin_dashboard")
                      ELSE Reply(200, "html", <<"admin_login.html">>, NoBody)))
    /\ UNCHANGED <<rows, seq, writeLock, pending, now, session, lastAuth, lastSwitch, outbound>>

AdminLoginPost(w, password) ==
    /\ Handle(w, [op |-> "admin_login_post", password |-> password],
              Handled(IF PasswordOk(password) THEN Redirect("admin_dashboard")
                      ELSE Redirect("admin_login")))
    /\ session' = IF PasswordOk(password) THEN TRUE ELSE session
    /\ lastAuth' = IF password = ADMIN_PASSWORD THEN "login_ok" ELSE "login_bad"
    /\ lastSwitch' = IF password = ADMIN_PASSWORD THEN "login_ok" ELSE lastSwitch
    /\ UNCHANGED <<rows, seq, writeLock, pending, now, outbound>>

AdminLogout(w) ==
    /\ Handle(w, [op |-> "admin_logout"], Handled(Redirect("admin_login")))
    /\ session' = FALSE
    /\ lastAuth' = "logout"
    /\ lastSwitch' = "logout"
    /\ UNCHANGED <<rows, seq, writeLock, pending, now, outbound>>

AdminDashboard(w) ==
    /\ Handle(w, [op |-> "admin_dashboard", admin |-> session],
              DashboardOutcome(session, rows))
    /\ UNCHANGED <<rows, seq, writeLock, pending, now, session, lastAuth, lastSwitch, outbound>>

UpdateStatus(w, reg_id, new_status) ==
    /\ Handle(w, [op |-> "update_status", admin |-> session, reg_id |-> reg_id,
                  status |-> new_status],
              StatusOutcome(session, reg_id, new_status))
    /\ UNCHANGED <<rows, seq, writeLock, pending, now, session, lastAuth, lastSwitch, outbound>>

UpdateNotes(w, reg_id, notes) ==
    /\ Handle(w, [op |-> "update_notes", admin |-> session, reg_id |-> reg_id,
                  notes |-> notes],
              NotesOutcome(session, reg_id, notes))
    /\ UNCHANGED <<rows, seq, writeLock, pending, now, session, lastAuth, lastSwitch, outbound>>

ExportCsv(w) ==
    /\ Handle(w, [op |-> "export_csv", admin |-> session],
              ExportOutcome(session, rows, now))
    /\ UNCHANGED <<rows, seq, writeLock, pending, now, session, lastAuth, lastSwitch, outbound>>

Lookup(w, r, out) ==
    /\ Handle(w, r, Handled(out.resp))
    /\ outbound' = [outbound EXCEPT ![w] = out.calls]
    /\ UNCHANGED <<rows, seq, writeLock, pending, now, session, lastAuth, lastSwitch>>

CnpjLookup(w, cnpj, up) ==
    Lookup(w, [op |-> "cnpj_lookup", input |-> cnpj, up |-> up], CnpjOutcome(cnpj, up))

CepLookup(w, cep, up) ==
    Lookup(w, [op |-> "cep_lookup", input |-> cep, up |-> up], CepOutcome(cep, up))

\* a second passes
Tick ==
    /\ now < MaxClock
    /\ now' = now + 1
    /\ UNCHANGED <<rows, seq, writeLock, pending, session, lastAuth, lastSwitch,
                   pc, req, args, resp, db, connects, outbound>>

\* ------------------------------------------------------------------------
\* Inputs
\* ------------------------------------------------------------------------
\* a complete submission with the given email text
BaseFields(email) ==
    [k \in Fields |->
        CASE k = "nome" -> StrV(<<" ", "n">>)
          [] k = "email" -> StrV(email)
          [] k = "telefone" -> StrV(<<"9">>)
          [] k = "cnpj" -> StrV(<<"1", "4">>)
          [] k = "termos_aceitos" -> TrueV
          [] OTHER -> Missing]

\* the other values a client may send in a field
Alternatives(k) ==
    CASE k \in {"nome", "email", "telefone", "cnpj"} ->
            {Missing, NullV, NumV, StrV(<<>>), StrV(<<" ">>)}
      [] k = "razao_social" -> {StrV(<<"r", " ">>), NumV, NullV}
      [] k = "empresas_brinde" -> {ListV(<<<<"p">>, <<"q">>>>), StrV(<<"p">>), ObjV}
      [] k = "termos_aceitos" -> {Missing}
      [] k = "status" -> {StrV(<<"a", "p", "r", "o", "v", "a", "d", "o">>)}

\* the field maps that differ from f in at most k fields
RECURSIVE Defects(_, _)
Defects(f, k) ==
    IF k = 0 THEN {f}
    ELSE LET prev == Defects(f, k - 1)
         IN  prev \cup UNION {UNION {{[g EXCEPT ![fld] = a] : a \in Alternatives(fld)}
                                     : fld \in Fields} : g \in prev}

EmailTexts == {<<"a">>, <<" ", "A", " ">>, <<"b">>}

\* request.get_json() results tried against the validation
Payloads ==
    {NullData, ArrayData(0), ArrayData(1), ObjectData(AllMissing)}
    \cup {ObjectData(f) : f \in Defects(BaseFields(<<" ", "A", " ">>), MaxDefects)}

\* submissions used where requests interleave and the table is reviewed
Submissions ==
    {NullData, ArrayData(1)}
    \cup {ObjectData(BaseFields(e)) : e \in EmailTexts}
    \cup {ObjectData([BaseFields(e) EXCEPT !["status"] = a]) :
             e \in EmailTexts, a \in Alternatives("status")}
    \cup {ObjectData([BaseFields(<<"b">>) EXCEPT ![k] = NumV]) :
             k \in {"nome", "razao_social"}}
    \cup {ObjectData([BaseFields(<<"b">>) EXCEPT !["empresas_brinde"] = ObjV])}

Passwords == {ADMIN_PASSWORD, "guess", ""}
StatusInputs == StatusValues \cup {Absent, "cancelado", ""}
NotesInputs == {Missing, StrV(<<>>), StrV(<<"o", "k">>)}
\* the identifiers in use and one that is not
RegIds == 1..(seq + 1)

DigitSeq == <<"0", "1", "2", "3", "4", "5", "6", "7", "8", "9">>
Digits(n) == [i \in 1..n |-> DigitSeq[(i % 10) + 1]]
InsertAt(s, k, c) == SubSeq(s, 1, k) \o <<c>> \o SubSeq(s, k + 1, Len(s))

\* path segments: n digits, alone or with one other character somewhere, and
\* the formatted identifiers
LookupInputs ==
    {Digits(n) : n \in 0..MaxDigits}
    \cup UNION {{InsertAt(Digits(n), k, c) : k \in 0..n, c \in {".", "/", "-", "x", " "}}
                : n \in 0..MaxDigits}
    \cup {<<"1", "1", ".", "2", "2", "2", ".", "3", "3", "3", "/",
            "0", "0", "0", "1", "-", "8", "1">>,
          <<"0", "1", "3", "1", "0", "-", "1", "0", "0">>,
          <<"0", "1", ".", "3", "1", "0", "-", "1", "0", "0">>}

\* what the provider does with the one attempt
Upstreams ==
    {[kind |-> "failed", status |-> 0, body |-> "none"]}
    \cup {[kind |-> "http", status |-> st, body |-> "upstream json"] :
             st \in {200, 404, 429, 500}}

\* ------------------------------------------------------------------------
\* Specifications
\* ------------------------------------------------------------------------
\* intake requests interleaving on the workers
Next ==
    \/ \E w \in Workers, data \in Submissions : CreateRegistration(w, data)
    \/ \E w \in Workers : Execute(w)
    \/ \E w \in Workers : Commit(w)
    \/ \E w \in Workers : Teardown(w)
    \/ Tick

Spec == Init /\ [][Next]_vars

\* the admin's browser session and the visitors' submissions, one request at
\* a time
NextReview ==
    \/ \E data \in Submissions : CreateRegistration("w1", data)
    \/ Execute("w1")
    \/ Commit("w1")
    \/ Teardown("w1")
    \/ AdminLogin("w1")
    \/ \E password \in Passwords : AdminLoginPost("w1", password)
    \/ AdminLogout("w1")
    \/ AdminDashboard("w1")
    \/ \E reg_id \in RegIds, new_status \in StatusInputs :
          UpdateStatus("w1", reg_id, new_status)
    \/ \E reg_id \in RegIds, notes \in NotesInputs : UpdateNotes("w1", reg_id, notes)
    \/ ExportCsv("w1")
    \/ Tick

SpecReview == Init /\ [][NextReview]_vars

\* one worker validating every payload
NextPayload ==
    \/ /\ pc["w1"] = "idle"
       /\ \E data \in Payloads : CreateRegistration("w1", data)
    \/ Execute("w1")
    \/ Commit("w1")
    \/ Teardown("w1")

SpecPayload == Init /\ [][NextPayload]_vars

\* one worker serving lookups
NextLookup ==
    \/ /\ pc["w1"] = "idle"
       /\ \E cnpj \in LookupInputs, up \in Upstreams : CnpjLookup("w1", cnpj, up)
    \/ /\ pc["w1"] = "idle"
       /\ \E cep \in LookupInputs, up \in Upstreams : CepLookup("w1", cep, up)
    \/ Teardown("w1")

SpecLookup == Init /\ [][NextLookup]_vars

\* ------------------------------------------------------------------------
\* Properties
\* ------------------------------------------------------------------------
ReviewOps == {"admin_dashboard", "update_status", "update_notes", "export_csv"}
LookupOps == {"cnpj_lookup", "cep_lookup"}
Answered(w, op) == pc[w] = "teardown" /\ req[w].op = op

\* a field the payload does not carry, or one that is empty once trimmed
Blank(v) == v.t = "missing" \/ (v.t = "str" /\ \A i \in 1..Len(v.s) : v.s[i] = " ")
BlankFields(data) == {i \in 1..Len(Required) : Blank(data.f[Required[i]])}
FirstBlank(data) == Required[SetMin(BlankFields(data))]

\* C1: a payload (a non-empty JSON object) with a required field missing or
\* blank is answered 400 "Campo obrigatório: <field>" with the first such
\* field in the order nome, email, telefone, cnpj, and no statement is run.
C1_MissingFieldNamed ==
    \A w \in Workers :
        (/\ Answered(w, "create_registration")
         /\ req[w].data.t = "object"
         /\ DataTruthy(req[w].data)
         /\ BlankFields(req[w].data) # {})
        => /\ resp[w] = JsonError(400, <<"Campo obrigatório: ", FirstBlank(req[w].data)>>)
           /\ args[w] = NoStmt

\* a submission that passes validation and binds
ValidSubmission(data) ==
    /\ data.t = "object"
    /\ \A i \in 1..Len(Required) :
          data.f[Required[i]].t = "str" /\ ~Blank(data.f[Required[i]])
    /\ data.f["razao_social"].t \in {"missing", "str"}
    /\ data.f["empresas_brinde"].t \in {"missing", "list", "str", "null", "num"}
EmailKey(data) == Lower(Strip(data.f["email"].s))
RowsWithEmail(key) == {i \in 1..Len(rows) : Lower(rows[i].email) = key}

C3_GateRedirects ==
    [][\A w \in Workers :
          (pc[w] = "idle" /\ pc'[w] # "idle" /\ req'[w].op \in ReviewOps /\ ~session)
          => /\ pc'[w] = "teardown"
             /\ resp'[w] = Redirect("admin_login")
             /\ args'[w] = NoStmt
             /\ ~db'[w]
             /\ rows' = rows]_vars

\* a status update with a valid value for a stored row, refused at the gate
C3_Witness ==
    \E w \in Workers :
        /\ Answered(w, "update_status")
        /\ ~req[w].admin
        /\ req[w].status = "aprovado"
        /\ \E i \in 1..Len(rows) : rows[i].id = req[w].reg_id /\ rows[i].status = "pendente"
        /\ resp[w] = Redirect("admin_login")

\* C4: every stored status is pendente, aprovado or rejeitado; a row starts
\* as pendente whatever the payload carried; a status update by the admin
\* with any other value, or none, is answered 400 and changes no row.
C4_StatusEnum ==
    /\ [](\A i \in 1..Len(rows) : rows[i].status \in {"pendente", "aprovado", "rejeitado"})
    /\ [](\A w \in Workers :
            (/\ Answered(w, "update_status")
             /\ req[w].admin
             /\ req[w].status \notin {"pendente", "aprovado", "rejeitado"})
            => resp[w] = JsonError(400, <<"Status inválido">>))
    /\ [][/\ Len(rows') > Len(rows) => rows'[Len(rows')].status = "pendente"
          /\ \A w \in Workers :
                (/\ pc[w] = "idle" /\ pc'[w] # "idle"
                 /\ req'[w].op = "update_status"
                 /\ req'[w].status \notin {"pendente", "aprovado", "rejeitado"})
                => pc'[w] = "teardown" /\ args'[w] = NoStmt /\ rows' = rows]_vars

\* the admin's update to "cancelado" of a row that is aprovado, answered 400
C4_Witness ==
    \E w \in Workers :
        /\ Answered(w, "update_status")
        /\ req[w].admin
        /\ req[w].status = "cancelado"
        /\ resp[w].code = 400
        /\ \E i \in 1..Len(rows) : rows[i].id = req[w].reg_id /\ rows[i].status = "aprovado"

\* C5 as stated: the session is authenticated exactly when the most recent
\* login or logout action was a login with the configured password.
C5_LastActionDecides == session <=> (lastAuth = "login_ok")

\* C5 amended: the session is authenticated exactly when the most recent
\* correct-password login or logout was a login; a login with another
\* password leaves the session as it was; a review handler gets past the
\* gate only in such a session.
C5_Gate ==
    /\ [](session <=> (lastSwitch = "login_ok"))
    /\ [](\A w \in Workers :
            (/\ pc[w] # "idle"
             /\ req[w].op \in ReviewOps
             /\ resp[w] # Redirect("admin_login"))
            => lastSwitch = "login_ok")
    /\ [][\A w \in Workers :
            (/\ pc[w] = "idle" /\ pc'[w] # "idle"
             /\ req'[w].op = "admin_login_post"
             /\ req'[w].password # ADMIN_PASSWORD)
            => session' = session]_vars

\* an authenticated session whose latest login attempt had a wrong password
C5_Witness ==
    /\ session
    /\ lastAuth = "login_bad"
    /\ \E w \in Workers : Answered(w, "admin_login_post") /\ req[w].password = "guess"

CreatedAtColumn == CHOOSE i \in 1..Len(Columns) : Columns[i] = "created_at"

\* C6: the export of an empty table is one empty header row; the export of n
\* rows is the header and n data rows, one per stored row, with creation
\* times not increasing, in the order the dashboard lists the same table.
C6_Export ==
    \A w \in Workers :
        (Answered(w, "export_csv") /\ req[w].admin)
        => LET body == resp[w].body
               n == Len(rows)
               list == DashboardOutcome(TRUE, rows).resp.body
           IN  /\ resp[w].kind = "csv"
               /\ n = 0 => body = <<<<>>>>
               /\ n >= 1 =>
                    /\ Len(body) = n + 1
                    /\ body[1] = Columns
                    /\ {body[i + 1][1] : i \in 1..n} = {rows[i].id : i \in 1..n}
                    /\ \A i \in 1..(n - 1) :
                          body[i + 1][CreatedAtColumn] >= body[i + 2][CreatedAtColumn]
                    /\ \A i \in 1..n : body[i + 1] = RowValues(list[i])

\* an export of two rows where the later row was created later
C6_Witness ==
    \E w \in Workers :
        /\ Answered(w, "export_csv") /\ req[w].admin
        /\ Len(rows) = 2
        /\ rows[1].created_at < rows[2].created_at
        /\ resp[w].body[2][1] = rows[2].id

Without(s, chars) == SelectSeq(s, LAMBDA c : c \notin chars)

C8_NoUncaughtError == \A w \in Workers : resp[w].kind # "exception"

Frozen(r) ==
    [c \in {Columns[i] : i \in 1..Len(Columns)} \ {"status", "notes"} |-> r[c]]
Committing(w, op) == pc[w] = "commit" /\ pc'[w] # "commit" /\ req[w].op = op

\* C9: rows are never removed and only status and notes of a row ever
\* change; the table grows by one row with a fresh id exactly when an intake
\* is answered 201; a status (notes) update of id i changes the status
\* (notes) of the row with id i and nothing else, no row when there is none.
C9_Frame ==
    [][/\ Len(rows) <= Len(rows') /\ Len(rows') <= Len(rows) + 1
       /\ \A i \in 1..Len(rows) : Frozen(rows'[i]) = Frozen(rows[i])
       /\ (Len(rows') = Len(rows) + 1)
             <=> (\E w \in Workers : resp[w].code # 201 /\ resp'[w].code = 201)
       /\ Len(rows') = Len(rows) + 1
             => \A i \in 1..Len(rows) : rows[i].id # rows'[Len(rows')].id
       /\ \A w \in Workers :
             Committing(w, "update_status")
             => /\ Len(rows') = Len(rows)
                /\ \A i \in 1..Len(rows) :
                      rows'[i] = IF rows[i].id = req[w].reg_id
                                 THEN [rows[i] EXCEPT !.status = req[w].status]
                                 ELSE rows[i]
       /\ \A w \in Workers :
             Committing(w, "update_notes")
             => /\ Len(rows') = Len(rows)
                /\ \A i \in 1..Len(rows) :
                      rows'[i] = IF rows[i].id = req[w].reg_id
                                 THEN [rows[i] EXCEPT !.notes =
                                          IF req[w].notes.t = "missing" THEN StrV(<<>>)
                                          ELSE req[w].notes]
                                 ELSE rows[i]
       /\ (\A w \in Workers : ~(pc[w] = "commit" /\ pc'[w] # "commit"))
             => rows' = rows]_vars

\* a status update answered with the redirect, having changed one of two
\* rows
C9_Witness ==
    \E w \in Workers :
        /\ Answered(w, "update_status")
        /\ resp[w] = Redirect("admin_dashboard")
        /\ req[w].status = "rejeitado"
        /\ Len(rows) = 2
        /\ \E i, j \in 1..2 :
              /\ rows[i].id = req[w].reg_id /\ rows[i].status = "rejeitado"
              /\ rows[j].id # req[w].reg_id /\ rows[j].status = "aprovado"

\* C10: a request connects at most once, holds its connection while it
\* runs statements, and no worker between requests has a connection open.
C10_ConnectionScoped ==
    \A w \in Workers :
        /\ connects[w] <= 1
        /\ db[w] => connects[w] = 1
        /\ pc[w] \in {"execute", "commit"} => db[w]
        /\ pc[w] = "idle" => ~db[w]

\* every worker between requests, after two submissions were committed, one
\* row was updated, and the connections of those requests were closed
C10_Witness ==
    /\ \A w \in Workers : pc[w] = "idle" /\ ~db[w]
    /\ Len(rows) = 2
    /\ \E i \in 1..2 : rows[i].status = "aprovado"
    /\ writeLock = NoWorker

====
